---- MODULE Spec2Model ----
(***************************************************************************)
(* A model of the megu-gfycat plugin: URL recognition, the bearer-token    *)
(* cache, the API and guesswork content iterators, strategy selection and  *)
(* the plugin facade (can_handle, extract_content, merge_manifest).        *)
(*                                                                         *)
(* Strings the code inspects character by character (URLs, the API flag)   *)
(* are sequences of one-character strings; optional values are <<>> for   *)
(* None and <<x>> for a present x.                                         *)
(***************************************************************************)
EXTENDS Integers, Sequences, FiniteSets, TLC

VARIABLES
    url,        \* the Url handed to the plugin
    environ,    \* os.environ: the three MEGU_GFYCAT_* values
    cache,      \* the disk cache entry under DISK_CACHE_KEY
    now,        \* the clock the disk cache reads
    requests,   \* every HTTP request sent so far, in order
    gen,        \* the generator returned by extract_content
    emitted,    \* the Content values the consumer has received
    error,      \* the exception that reached the caller, if any
    calls,      \* the get_bearer_token calls made so far, in order
    handled,    \* the last result of can_handle
    files,      \* the local file system: path -> content
    manifest,   \* the manifest handed to merge_manifest
    merged,     \* the outcome of merge_manifest
    race        \* interleaved get_bearer_token invocations and their cache writes

vars == <<url, environ, cache, now, requests, gen, emitted, error, calls,
          handled, files, manifest, merged, race>>

NoneVal == <<>>
Some(x) == <<x>>

\* ------------------------------------------------------------ characters

LowerLetters == {"a","b","c","d","e","f","g","h","i","j","k","l","m",
                 "n","o","p","q","r","s","t","u","v","w","x","y","z"}
UpperLetters == {"A","B","C","D","E","F","G","H","I","J","K","L","M",
                 "N","O","P","Q","R","S","T","U","V","W","X","Y","Z"}
Digits == {"0","1","2","3","4","5","6","7","8","9"}
Letters == LowerLetters \cup UpperLetters

S_https == <<"h","t","t","p","s">>
S_http == <<"h","t","t","p">>
S_colon == <<":">>
S_sep == <<":","/","/">>
S_www == <<"w","w","w",".">>
S_host == <<"g","f","y","c","a","t",".","c","o","m">>
S_hostSlash == S_host \o <<"/">>
S_dotHost == <<".">> \o S_host \o <<"/">>
S_detail == <<"g","i","f","s","/","d","e","t","a","i","l">>
S_giant == <<"g","i","a","n","t">>
S_thumbs == <<"t","h","u","m","b","s">>
S_other == <<"e","x","a","m","p","l","e",".","c","o","m">>

\* ------------------------------------------------------- regex matching
\* A position is the number of characters consumed; each step maps the set
\* of positions reachable before a regex element to the set after it.

MatchLit(s, P, lit) ==
    {p + Len(lit) : p \in {q \in P : /\ q + Len(lit) <= Len(s)
                                     /\ SubSeq(s, q + 1, q + Len(lit)) = lit}}

MatchPlus(s, P, class) ==
    {q \in 1..Len(s) : \E p \in P : p < q /\ \A i \in (p + 1)..q : s[i] \in class}

MatchStar(s, P, class) == P \cup MatchPlus(s, P, class)

\* `$` matches at the end of the string and before a final newline
AtEnd(s, P) ==
    \/ Len(s) \in P
    \/ Len(s) >= 1 /\ s[Len(s)] = "\n" /\ (Len(s) - 1) \in P

SetMax(S) == CHOOSE m \in S : \A x \in S : x <= m

\* ^https:?://
SchemeEnd(s) ==
    LET p1 == MatchLit(s, {0}, S_https)
        p2 == p1 \cup MatchLit(s, p1, S_colon)
    IN  MatchLit(s, p2, S_sep)

\* [a-zA-Z0-9-]*/?$ from position b
BasicTail(s, b) ==
    LET p1 == MatchStar(s, {b}, Letters \cup Digits \cup {"-"})
        p2 == p1 \cup MatchLit(s, p1, <<"/">>)
    IN  AtEnd(s, p2)

\* [a-zA-Z0-9_-]*\.[a-zA-Z0-9]+$ from position b
RawTail(s, b) ==
    LET p1 == MatchStar(s, {b}, Letters \cup Digits \cup {"_", "-"})
        p2 == MatchLit(s, p1, <<".">>)
        p3 == MatchPlus(s, p2, Letters \cup Digits)
    IN  AtEnd(s, p3)

\* the ends of (?P<id>[a-zA-Z]+) started at a for which the rest matches
IdEnds(s, a, basic) ==
    {b \in MatchPlus(s, {a}, Letters) : IF basic THEN BasicTail(s, b) ELSE RawTail(s, b)}

\* BASIC_PATTERN.match(s): the id group of the match, or None.  The optional
\* group (?:gifs/detail)? is greedy, so a match that takes it comes first.
BASIC_PATTERN(s) ==
    LET p1 == MatchLit(s, SchemeEnd(s), S_hostSlash) \cup
              MatchLit(s, MatchLit(s, SchemeEnd(s), S_www), S_hostSlash)
        p2 == MatchLit(s, p1, S_detail)
        with == {a \in p2 : IdEnds(s, a, TRUE) # {}}
        without == {a \in p1 : IdEnds(s, a, TRUE) # {}}
    IN  IF with # {}
        THEN LET a == SetMax(with)
             IN  Some(SubSeq(s, a + 1, SetMax(IdEnds(s, a, TRUE))))
        ELSE IF without # {}
        THEN LET a == SetMax(without)
             IN  Some(SubSeq(s, a + 1, SetMax(IdEnds(s, a, TRUE))))
        ELSE NoneVal

\* RAW_PATTERN.match(s): the id group of the match, or None
RAW_PATTERN(s) ==
    LET p1 == MatchPlus(s, SchemeEnd(s), LowerLetters)
        p2 == MatchLit(s, p1, S_dotHost)
        ok == {a \in p2 : IdEnds(s, a, FALSE) # {}}
    IN  IF ok = {} THEN NoneVal
        ELSE LET a == SetMax(ok)
             IN  Some(SubSeq(s, a + 1, SetMax(IdEnds(s, a, FALSE))))

PatternMatch(name, s) == IF name = "basic" THEN BASIC_PATTERN(s) ELSE RAW_PATTERN(s)

\* VALID_PATTERNS is a set: the order the loop visits it in is not fixed
VALID_PATTERNS == {<<"basic", "raw">>, <<"raw", "basic">>}

RECURSIVE UrlIdFrom(_, _, _)
UrlIdFrom(s, order, i) ==
    IF i > Len(order) THEN NoneVal
    ELSE IF PatternMatch(order[i], s) # NoneVal THEN PatternMatch(order[i], s)
    ELSE UrlIdFrom(s, order, i + 1)

Mut_get_url_id(s, order) == PatternMatch(order[1], s)

get_url_id(s, order) == UrlIdFrom(s, order, 1)

is_known_url(s, order) == get_url_id(s, order) # NoneVal

can_handle(s, order) == is_known_url(s, order)

\* ------------------------------------------------------------ URL inputs

MaxTail == 3

TailChars == {"a", "Z", "1", "-", "_", ".", "/"}

Tails == UNION {[1..k -> TailChars] : k \in 0..MaxTail}

Schemes == {S_https \o S_sep, S_https \o S_colon \o S_sep, S_http \o S_sep}

Hosts == {S_host, S_www \o S_host, S_giant \o <<".">> \o S_host,
          <<"a", "1", ".">> \o S_host, S_other}

UrlPaths == {<<>>} \cup {<<"/">> \o pre \o t : pre \in {<<>>, S_detail}, t \in Tails}

Urls == {sc \o h \o p : sc \in Schemes, h \in Hosts, p \in UrlPaths}

\* ------------------------------------------------------------ idle values

NoEnviron == [enabled |-> NoneVal, token |-> NoneVal, secret |-> NoneVal]
NoGen == [pc |-> "none", strategy |-> "none", idx |-> 0, id |-> NoneVal,
          item |-> NoneVal, pulls |-> 0]
LocalPaths == {"part", "out", "other"}
NoFiles == [p \in LocalPaths |-> NoneVal]
NoRace == [procs |-> <<>>, writes |-> <<>>]

\* ------------------------------------------------------------ can_handle

InitUrl ==
    /\ url \in Urls
    /\ environ = NoEnviron
    /\ cache = NoneVal
    /\ now = 0
    /\ requests = <<>>
    /\ gen = NoGen
    /\ emitted = <<>>
    /\ error = "none"
    /\ calls = <<>>
    /\ handled = NoneVal
    /\ files = NoFiles
    /\ manifest = <<>>
    /\ merged = NoneVal
    /\ race = NoRace

CanHandle ==
    /\ handled = NoneVal
    /\ \E order \in VALID_PATTERNS : handled' = Some(can_handle(url, order))
    /\ UNCHANGED <<url, environ, cache, now, requests, gen, emitted, error, calls,
                   files, manifest, merged, race>>

NextUrl == CanHandle

SpecUrl == InitUrl /\ [][NextUrl]_vars

StartsWith(s, lit) == Len(s) >= Len(lit) /\ SubSeq(s, 1, Len(lit)) = lit

\* C7: can_handle answers TRUE exactly for the URLs that match the basic
\* item-page pattern or the raw CDN pattern (so never for a foreign host, a
\* plain-http URL or a URL without a path), and answering sends no request
\* and leaves the token cache alone.
C7_CanHandleIffPattern ==
    handled # NoneVal =>
        /\ handled[1] = (BASIC_PATTERN(url) # NoneVal \/ RAW_PATTERN(url) # NoneVal)
        /\ (\E sc \in Schemes : StartsWith(url, sc \o S_other)) => handled[1] = FALSE
        /\ StartsWith(url, S_http \o S_sep) => handled[1] = FALSE
        /\ (\E sc \in Schemes, h \in Hosts : url = sc \o h) => handled[1] = FALSE
        /\ url = S_https \o S_sep \o S_host \o <<"/", "a", "Z", "-">> => handled[1] = TRUE
        /\ url = S_https \o S_sep \o S_giant \o <<".">> \o S_host \o <<"/", "a", ".", "1">>
              => handled[1] = TRUE
        /\ requests = <<>>
        /\ cache = NoneVal

C7_Witness ==
    /\ handled = Some(TRUE)
    /\ RAW_PATTERN(url) # NoneVal
    /\ BASIC_PATTERN(url) = NoneVal

\* ---------------------------------------------------------------- errors
\* An exception is named after the raise site's meaning:
\*   "InvalidInput"    ValueError, utils.py get_gfycat_id
\*   "AuthError"       ValueError, api.py get_auth_response / get_bearer_token
\*   "FetchError"      ValueError, api.py get_gfycat_response, guesswork.py page fetch
\*   "ParseError"      ValueError, guesswork.py video element / poster
\*   "ConfigError"     RuntimeError, helpers.py get_content_iterator
\*   "ValidationError" ValueError, plugins/basic.py merge_manifest
\*   "KeyError", "FileNotFoundError": raised by the interpreter, not by a raise
\*   statement of the package
NoError == "none"

\* ---------------------------------------------------------- merge_manifest

MaxArtifacts == 2

\* Path.rename: the source must exist; an existing target is replaced
PathRename(fs, from, to) ==
    IF fs[from] = NoneVal THEN [files |-> fs, error |-> "FileNotFoundError"]
    ELSE IF from = to THEN [files |-> fs, error |-> NoError]
    ELSE [files |-> [fs EXCEPT ![to] = fs[from], ![from] = NoneVal], error |-> NoError]

Mut_merge_manifest(m, to_path, fs) ==
    IF Len(m) < 1
    THEN [result |-> NoneVal, error |-> "ValidationError", files |-> fs]
    ELSE LET moved == PathRename(fs, m[1][2], to_path)
         IN  [result |-> IF moved.error = NoError THEN Some(to_path) ELSE NoneVal,
              error |-> moved.error, files |-> moved.files]

merge_manifest(m, to_path, fs) ==
    IF Len(m) # 1
    THEN [result |-> NoneVal, error |-> "ValidationError", files |-> fs]
    ELSE LET moved == PathRename(fs, m[1][2], to_path)
         IN  [result |-> IF moved.error = NoError THEN Some(to_path) ELSE NoneVal,
              error |-> moved.error, files |-> moved.files]

Artifacts == {<<"resource", p>> : p \in LocalPaths}

Manifests == UNION {[1..k -> Artifacts] : k \in 0..MaxArtifacts}

InitMerge ==
    /\ url = <<>>
    /\ environ = NoEnviron
    /\ cache = NoneVal
    /\ now = 0
    /\ requests = <<>>
    /\ gen = NoGen
    /\ emitted = <<>>
    /\ error = NoError
    /\ calls = <<>>
    /\ handled = NoneVal
    /\ files \in [LocalPaths -> {NoneVal} \cup {Some(p) : p \in LocalPaths}]
    /\ \A p \in LocalPaths : files[p] \in {NoneVal, Some(p)}
    /\ manifest \in Manifests
    /\ merged = NoneVal
    /\ race = NoRace

\* merged records the call: its to_path, the files before it and its outcome
MergeManifest ==
    /\ merged = NoneVal
    /\ \E to_path \in LocalPaths :
          LET r == merge_manifest(manifest, to_path, files)
          IN  /\ files' = r.files
              /\ merged' = Some([to_path |-> to_path, before |-> files,
                                 result |-> r.result, error |-> r.error])
    /\ UNCHANGED <<url, environ, cache, now, requests, gen, emitted, error, calls,
                   handled, manifest, race>>

NextMerge == MergeManifest

SpecMerge == InitMerge /\ [][NextMerge]_vars

\* C8: merge_manifest raises ValidationError for every manifest whose
\* artifact count is not 1 and then moves no file; with exactly one artifact
\* (whose local file exists) the file ends up at to_path, is gone from its
\* old path, no other file changes, and to_path itself is returned.
C8_MergeExactlyOne ==
    merged # NoneVal =>
        LET m == merged[1]
            src == manifest[1][2]
        IN  /\ Len(manifest) # 1 =>
                  /\ m.error = "ValidationError"
                  /\ m.result = NoneVal
                  /\ files = m.before
            /\ (Len(manifest) = 1 /\ m.before[src] # NoneVal) =>
                  /\ m.error = NoError
                  /\ m.result = Some(m.to_path)
                  /\ files[m.to_path] = m.before[src]
                  /\ src # m.to_path => files[src] = NoneVal
                  /\ \A p \in LocalPaths \ {src, m.to_path} : files[p] = m.before[p]

C8_Witness ==
    /\ merged # NoneVal
    /\ Len(manifest) = 1
    /\ merged[1].result = Some("out")
    /\ manifest[1][2] = "part"
    /\ files["out"] = Some("part")

\* ------------------------------------------------------------ token cache

DefaultExpire == 3600

MaxCalls == 3
MaxNow == 4500

TickSteps == {900, DefaultExpire}

\* A token is a non-empty string, <<"t", n>> for the n-th one the server
\* issued; <<>> is the empty string.
EmptyStr == <<>>
FreshToken(n) == <<"t", n>>

\* What the OAuth endpoint may answer; a payload key that is absent is
\* NoneVal.  n is the number of the token it issues when it issues one.
AuthResponses(n) ==
    {[ok |-> FALSE, access_token |-> NoneVal, expires_in |-> NoneVal],
     [ok |-> TRUE, access_token |-> NoneVal, expires_in |-> Some(900)],
     [ok |-> TRUE, access_token |-> Some(EmptyStr), expires_in |-> Some(900)]}
    \cup {[ok |-> TRUE, access_token |-> Some(FreshToken(n)), expires_in |-> e] :
             e \in {NoneVal, Some(0), Some(900)}}

API_URL_BASE == <<"h","t","t","p","s",":","/","/","a","p","i",".","g","f","y","c","a","t",".","c","o","m","/","v","1","/">>
API_URL_DATA == API_URL_BASE \o <<"g","f","y","c","a","t","s","/">>
API_URL_AUTH == API_URL_BASE \o <<"o","a","u","t","h","/","t","o","k","e","n","/">>

\* An HTTP request: what it is for, its URL, the bearer token it carries (if
\* any) and the response it got.
AuthRequest(resp) ==
    [kind |-> "auth", target |-> API_URL_AUTH, bearer |-> NoneVal, resp |-> resp]

\* cache.get(DISK_CACHE_KEY, default=None): an entry is served only while
\* its expiry time lies in the future
CacheGet(c, t) ==
    IF c # NoneVal /\ c[1].expire_time > t THEN Some(c[1].value) ELSE NoneVal

\* cache.set(DISK_CACHE_KEY, value, expire=expire)
CacheSet(value, t, expire) == Some([value |-> value, expire_time |-> t + expire])

\* get_auth_response: the POST, then ValueError unless response.ok
get_auth_response(resp) ==
    IF ~resp.ok THEN [data |-> NoneVal, error |-> "AuthError"]
    ELSE [data |-> Some(resp), error |-> NoError]

Mut_get_bearer_token_ttl(c, t, resp) ==
    IF CacheGet(c, t) # NoneVal
    THEN [token |-> CacheGet(c, t), error |-> NoError, cache |-> c, sent |-> <<>>]
    ELSE LET auth == get_auth_response(resp)
             sent == <<AuthRequest(resp)>>
         IN  IF auth.error # NoError
             THEN [token |-> NoneVal, error |-> auth.error, cache |-> c, sent |-> sent]
             ELSE IF auth.data[1].access_token = NoneVal
             THEN [token |-> NoneVal, error |-> "KeyError", cache |-> c, sent |-> sent]
             ELSE IF auth.data[1].access_token[1] = EmptyStr
             THEN [token |-> NoneVal, error |-> "AuthError", cache |-> c, sent |-> sent]
             ELSE LET bearer_token == auth.data[1].access_token[1]
                      expire == DefaultExpire
                  IN  [token |-> Some(bearer_token), error |-> NoError,
                       cache |-> CacheSet(bearer_token, t, expire), sent |-> sent]

Mut_get_bearer_token_nostore(c, t, resp) ==
    IF CacheGet(c, t) # NoneVal
    THEN [token |-> CacheGet(c, t), error |-> NoError, cache |-> c, sent |-> <<>>]
    ELSE LET auth == get_auth_response(resp)
             sent == <<AuthRequest(resp)>>
         IN  IF auth.error # NoError
             THEN [token |-> NoneVal, error |-> auth.error, cache |-> c, sent |-> sent]
             ELSE IF auth.data[1].access_token = NoneVal
             THEN [token |-> NoneVal, error |-> "KeyError", cache |-> c, sent |-> sent]
             ELSE IF auth.data[1].access_token[1] = EmptyStr
             THEN [token |-> NoneVal, error |-> "AuthError", cache |-> c, sent |-> sent]
             ELSE LET bearer_token == auth.data[1].access_token[1]
                      expire == IF auth.data[1].expires_in = NoneVal THEN DefaultExpire
                                ELSE auth.data[1].expires_in[1]
                  IN  [token |-> Some(bearer_token), error |-> NoError,
                       cache |-> c, sent |-> sent]

\* get_bearer_token against cache c at time t, resp being what the OAuth
\* endpoint answers if it is asked.  sent lists the requests made.
get_bearer_token(c, t, resp) ==
    IF CacheGet(c, t) # NoneVal
    THEN [token |-> CacheGet(c, t), error |-> NoError, cache |-> c, sent |-> <<>>]
    ELSE LET auth == get_auth_response(resp)
             sent == <<AuthRequest(resp)>>
         IN  IF auth.error # NoError
             THEN [token |-> NoneVal, error |-> auth.error, cache |-> c, sent |-> sent]
             ELSE IF auth.data[1].access_token = NoneVal
             THEN [token |-> NoneVal, error |-> "KeyError", cache |-> c, sent |-> sent]
             ELSE IF auth.data[1].access_token[1] = EmptyStr
             THEN [token |-> NoneVal, error |-> "AuthError", cache |-> c, sent |-> sent]
             ELSE LET bearer_token == auth.data[1].access_token[1]
                      expire == IF auth.data[1].expires_in = NoneVal THEN DefaultExpire
                                ELSE auth.data[1].expires_in[1]
                  IN  [token |-> Some(bearer_token), error |-> NoError,
                       cache |-> CacheSet(bearer_token, t, expire), sent |-> sent]

AuthCount(reqs) == Cardinality({i \in 1..Len(reqs) : reqs[i].kind = "auth"})

InitToken ==
    /\ url = <<>>
    /\ environ = NoEnviron
    /\ cache = NoneVal
    /\ now = 0
    /\ requests = <<>>
    /\ gen = NoGen
    /\ emitted = <<>>
    /\ error = NoError
    /\ calls = <<>>
    /\ handled = NoneVal
    /\ files = NoFiles
    /\ manifest = <<>>
    /\ merged = NoneVal
    /\ race = NoRace

\* one call of get_bearer_token; calls records when it ran and what it did
GetBearerToken ==
    /\ Len(calls) < MaxCalls
    /\ \E resp \in AuthResponses(AuthCount(requests) + 1) :
          LET r == get_bearer_token(cache, now, resp)
          IN  /\ cache' = r.cache
              /\ requests' = requests \o r.sent
              /\ calls' = Append(calls, [time |-> now, sent |-> r.sent,
                                         token |-> r.token, error |-> r.error])
    /\ UNCHANGED <<url, environ, now, gen, emitted, error, handled, files,
                   manifest, merged, race>>

Tick ==
    /\ \E d \in TickSteps : now + d <= MaxNow /\ now' = now + d
    /\ UNCHANGED <<url, environ, cache, requests, gen, emitted, error, calls,
                   handled, files, manifest, merged, race>>

NextToken == GetBearerToken \/ Tick

SpecToken == InitToken /\ [][NextToken]_vars

\* the call stored a token: it asked the server and got a usable answer
Stored(i) == calls[i].sent # <<>> /\ calls[i].error = NoError

\* the TTL the spec gives the token call i stored
SpecTtl(i) ==
    LET resp == calls[i].sent[1].resp
    IN  IF resp.expires_in = NoneVal THEN 3600 ELSE resp.expires_in[1]

\* the last call before i that stored a token, 0 if none did
LastStore(i) ==
    IF \E k \in 1..(i - 1) : Stored(k)
    THEN SetMax({k \in 1..(i - 1) : Stored(k)})
    ELSE 0

\* call i ran while the token stored last was within its TTL
Live(i) == LastStore(i) # 0 /\ calls[i].time < calls[LastStore(i)].time + SpecTtl(LastStore(i))

\* C1: a call that answers from the cache (no auth request) returns the token
\* stored last, and returns it strictly before that token's storing time
\* plus its TTL: expires_in if the server sent one, 3600 otherwise.
C1_NoTokenPastExpiry ==
    \A i \in 1..Len(calls) :
        (calls[i].sent = <<>>) =>
            /\ calls[i].error = NoError
            /\ LastStore(i) # 0
            /\ calls[i].token = calls[LastStore(i)].token
            /\ calls[i].time < calls[LastStore(i)].time + SpecTtl(LastStore(i))

C1_Witness ==
    /\ Len(calls) >= 2
    /\ calls[1].sent # <<>> /\ calls[1].sent[1].resp.expires_in = NoneVal
    /\ calls[2].sent = <<>>
    /\ calls[2].time = 2700

\* C2: from an empty cache the first successful call makes one auth request;
\* a successful call that follows while the stored token is within its TTL
\* makes none and returns the same token (one request in total for the two);
\* a call made once the TTL has run out makes exactly one new auth request.
C2_OneAuthPerTtl ==
    /\ \A i \in 1..Len(calls) :
          /\ Live(i) => /\ calls[i].sent = <<>>
                         /\ calls[i].token = calls[LastStore(i)].token
          /\ ~Live(i) => Len(calls[i].sent) = 1 /\ calls[i].sent[1].kind = "auth"
    /\ AuthCount(requests) = Cardinality({i \in 1..Len(calls) : ~Live(i)})
    /\ (Len(calls) >= 2 /\ Stored(1) /\ Live(2)) =>
          /\ AuthCount(calls[1].sent \o calls[2].sent) = 1
          /\ calls[2].token = calls[1].token

C2_Witness ==
    /\ Len(calls) = 3
    /\ Stored(1) /\ Live(2) /\ calls[2].error = NoError
    /\ LastStore(3) = 1 /\ ~Live(3) /\ Stored(3)
    /\ AuthCount(requests) = 2

\* ------------------------------------------------------------- constants

S_gfycatDash == <<"g","f","y","c","a","t","-">>
S_pageBase == <<"h","t","t","p","s",":","/","/","g","f","y","c","a","t",".","c","o","m","/">>

\* CONTENT_ENTRIES, in table order.  quality is in hundredths (1.0 is 100);
\* url_template is the text before and after {id}.
CONTENT_ENTRIES ==
    <<
      [name |-> "MP4 Video", type |-> <<"m","p","4">>, extension |-> ".mp4",
       mimetype |-> "video/mp4", quality |-> 100,
       url_template |-> <<<<"h","t","t","p","s",":","/","/","g","i","a","n","t",".","g","f","y","c","a","t",".","c","o","m","/">>,
                          <<".","m","p","4">>>>],
      [name |-> "WEBM Video", type |-> <<"w","e","b","m">>, extension |-> ".webm",
       mimetype |-> "video/webm", quality |-> 50,
       url_template |-> <<<<"h","t","t","p","s",":","/","/","g","i","a","n","t",".","g","f","y","c","a","t",".","c","o","m","/">>,
                          <<".","w","e","b","m">>>>],
      [name |-> "5MB Gif Image", type |-> <<"m","a","x","5","m","b","G","i","f">>, extension |-> ".gif",
       mimetype |-> "image/gif", quality |-> 25,
       url_template |-> <<<<"h","t","t","p","s",":","/","/","t","h","u","m","b","s",".","g","f","y","c","a","t",".","c","o","m","/">>,
                          <<"-","s","i","z","e","_","r","e","s","t","r","i","c","t","e","d",".","g","i","f">>>>],
      [name |-> "2MB Gif Image", type |-> <<"m","a","x","2","m","b","G","i","f">>, extension |-> ".gif",
       mimetype |-> "image/gif", quality |-> 10,
       url_template |-> <<<<"h","t","t","p","s",":","/","/","t","h","u","m","b","s",".","g","f","y","c","a","t",".","c","o","m","/">>,
                          <<"-","s","m","a","l","l",".","g","i","f">>>>],
      [name |-> "1MB Gift Image", type |-> <<"m","a","x","1","m","b","G","i","f">>, extension |-> ".gif",
       mimetype |-> "image/gif", quality |-> 5,
       url_template |-> <<<<"h","t","t","p","s",":","/","/","t","h","u","m","b","s",".","g","f","y","c","a","t",".","c","o","m","/">>,
                          <<"-","m","a","x","-","1","m","b",".","g","i","f">>>>]
    >>

\* GFYCAT_URL_TEMPLATE.format(id=...)
GFYCAT_URL_TEMPLATE(id) == S_pageBase \o id

\* url_template.format(id=...)
FormatTemplate(t, id) == t[1] \o id \o t[2]

\* ----------------------------------------------------------------- utils

\* f"gfycat-{type_key!s}-{gfycat_id!s}"
build_content_id(gfycat_id, type_key) == S_gfycatDash \o type_key \o <<"-">> \o gfycat_id

\* s.split(sep), for a one-character sep
RECURSIVE StrSplit(_, _)
StrSplit(s, sep) ==
    IF \A i \in 1..Len(s) : s[i] # sep THEN <<s>>
    ELSE LET i == CHOOSE j \in 1..Len(s) : s[j] = sep /\ \A k \in 1..(j - 1) : s[k] # sep
         IN  <<SubSeq(s, 1, i - 1)>> \o StrSplit(SubSeq(s, i + 1, Len(s)), sep)

\* Url(s).path.segments: the text after scheme and host, split on "/"; no
\* path at all gives no segment, a path of "/" gives one empty segment
PathSegments(s) ==
    LET starts == {i \in 1..(Len(s) - 2) : SubSeq(s, i, i + 2) = S_sep}
        rest == IF starts = {} THEN s
                ELSE LET i == CHOOSE j \in starts : \A k \in starts : j <= k
                     IN  SubSeq(s, i + 3, Len(s))
        parts == StrSplit(rest, "/")
    IN  Tail(parts)

Mut_get_gfycat_id(s) ==
    IF Len(PathSegments(s)) <= 0 THEN [id |-> Some(<<>>), error |-> NoError]
    ELSE [id |-> Some(StrSplit(PathSegments(s)[1], "-")[1]), error |-> NoError]

get_gfycat_id(s) ==
    IF Len(PathSegments(s)) <= 0 THEN [id |-> NoneVal, error |-> "InvalidInput"]
    ELSE [id |-> Some(StrSplit(PathSegments(s)[1], "-")[1]), error |-> NoError]

\* --------------------------------------------------------------- helpers

AlphaLower == <<"a","b","c","d","e","f","g","h","i","j","k","l","m",
                "n","o","p","q","r","s","t","u","v","w","x","y","z">>
AlphaUpper == <<"A","B","C","D","E","F","G","H","I","J","K","L","M",
                "N","O","P","Q","R","S","T","U","V","W","X","Y","Z">>

LowerChar(c) ==
    IF c \in UpperLetters THEN AlphaLower[CHOOSE i \in 1..26 : AlphaUpper[i] = c] ELSE c

\* str.lower()
StrLower(s) == [i \in 1..Len(s) |-> LowerChar(s[i])]

\* os.getenv(name, default)
GetEnv(value, default) == IF value = NoneVal THEN default ELSE value[1]

Mut_is_api_enabled(env) == GetEnv(env.enabled, <<>>) \in {<<"1">>, <<"t","r","u","e">>}

is_api_enabled(env) == StrLower(GetEnv(env.enabled, <<>>)) \in {<<"1">>, <<"t","r","u","e">>}

get_api_tokens(env) ==
    IF env.token = NoneVal \/ env.secret = NoneVal THEN NoneVal
    ELSE Some(<<env.token[1], env.secret[1]>>)

\* get_content_iterator: which iterator it returns, or the error it raises
get_content_iterator(env) ==
    IF is_api_enabled(env)
    THEN IF get_api_tokens(env) = NoneVal
         THEN [strategy |-> "none", error |-> "ConfigError"]
         ELSE [strategy |-> "api", error |-> NoError]
    ELSE [strategy |-> "guess", error |-> NoError]

\* ------------------------------------------------------------------- api

S_gfyId == <<"A","b">>
S_mobile == <<"m","o","b","i","l","e">>
S_cdn == <<"c","d","n","/">>

ContentKeySeq == <<CONTENT_ENTRIES[1].type, CONTENT_ENTRIES[2].type, CONTENT_ENTRIES[3].type,
                   CONTENT_ENTRIES[4].type, CONTENT_ENTRIES[5].type, S_mobile>>

ContentKeys == {ContentKeySeq[i] : i \in 1..Len(ContentKeySeq)}

\* the content_urls entry the server sends for key k: each key has its own
\* url and size
ContentData(k) ==
    [url |-> S_cdn \o k,
     size |-> 11 * (CHOOSE i \in 1..Len(ContentKeySeq) : ContentKeySeq[i] = k),
     width |-> 640, height |-> 480]

GfycatItem(keys) ==
    [gfyId |-> S_gfyId, description |-> "description", username |-> "username",
     createDate |-> 1600000000, posterUrl |-> "posterUrl",
     content_urls |-> [k \in keys |-> ContentData(k)]]

\* What the item endpoint may answer: a failed response, a payload with an
\* "error" field, or an item with any set of content_urls keys
ItemResponses ==
    {[ok |-> FALSE, has_error |-> FALSE, gfyItem |-> NoneVal],
     [ok |-> TRUE, has_error |-> TRUE, gfyItem |-> NoneVal]}
    \cup {[ok |-> TRUE, has_error |-> FALSE, gfyItem |-> Some(GfycatItem(keys))] :
            keys \in SUBSET ContentKeys}

ItemRequest(gfycat_id, bearer, resp) ==
    [kind |-> "item", target |-> API_URL_DATA \o gfycat_id, bearer |-> Some(bearer),
     resp |-> resp]

\* get_gfycat_response: the bearer token first, then the GET of the item
get_gfycat_response(gfycat_id, c, t, auth, item) ==
    LET bt == get_bearer_token(c, t, auth)
    IN  IF bt.error # NoError
        THEN [data |-> NoneVal, error |-> bt.error, cache |-> bt.cache, sent |-> bt.sent]
        ELSE LET sent == bt.sent \o <<ItemRequest(gfycat_id, bt.token[1], item)>>
             IN  IF ~item.ok
                 THEN [data |-> NoneVal, error |-> "FetchError", cache |-> bt.cache,
                       sent |-> sent]
                 ELSE IF item.has_error
                 THEN [data |-> NoneVal, error |-> "FetchError", cache |-> bt.cache,
                       sent |-> sent]
                 ELSE [data |-> Some(item), error |-> NoError, cache |-> bt.cache,
                       sent |-> sent]

\* the Content the API iterator yields for table entry i
ApiContent(i, gfycat_id, data) ==
    LET item == data.gfyItem[1]
        entry == CONTENT_ENTRIES[i]
        d == item.content_urls[entry.type]
    IN  [id |-> build_content_id(gfycat_id, entry.type),
         url |-> GFYCAT_URL_TEMPLATE(item.gfyId),
         size |-> d.size,
         type |-> entry.mimetype,
         quality |-> entry.quality,
         resources |-> <<[method |-> "GET", url |-> d.url]>>,
         meta |-> [id |-> item.gfyId, description |-> Some(item.description),
                   publisher |-> Some(item.username),
                   published_at |-> Some(item.createDate),
                   thumbnail |-> Some(item.posterUrl)],
         extra |-> Some(data)]

Mut_NextApiIndex(content_urls, idx) ==
    IF idx + 1 <= Len(CONTENT_ENTRIES) /\ CONTENT_ENTRIES[idx + 1].type \in DOMAIN content_urls
    THEN idx + 1 ELSE 0

\* the first table entry after idx whose type is a key of content_urls, 0 if none
NextApiIndex(content_urls, idx) ==
    LET hits == {i \in (idx + 1)..Len(CONTENT_ENTRIES) :
                   CONTENT_ENTRIES[i].type \in DOMAIN content_urls}
    IN  IF hits = {} THEN 0 ELSE CHOOSE i \in hits : \A j \in hits : i <= j

\* A step of a generator: where it stops (pc), what it yields (out), the
\* error it raises, the cache it leaves and the requests it sent.
Failed(g, err, c, sent) ==
    [pc |-> "failed", idx |-> g.idx, id |-> g.id, item |-> g.item, out |-> <<>>,
     error |-> err, cache |-> c, sent |-> sent]

\* the loop of api.iter_content resumed after entry idx
ApiLoop(g, gfycat_id, data, idx, c, sent) ==
    LET i == NextApiIndex(data.gfyItem[1].content_urls, idx)
    IN  IF i = 0
        THEN [pc |-> "done", idx |-> Len(CONTENT_ENTRIES), id |-> Some(gfycat_id),
              item |-> Some(data), out |-> <<>>, error |-> NoError, cache |-> c,
              sent |-> sent]
        ELSE [pc |-> "suspended", idx |-> i, id |-> Some(gfycat_id),
              item |-> Some(data), out |-> <<ApiContent(i, gfycat_id, data)>>,
              error |-> NoError, cache |-> c, sent |-> sent]

\* api.iter_content from its first line to its first yield
ApiStart(g, u, c, t, auth, item) ==
    LET gid == get_gfycat_id(u)
    IN  IF gid.error # NoError THEN Failed(g, gid.error, c, <<>>)
        ELSE LET r == get_gfycat_response(gid.id[1], c, t, auth, item)
             IN  IF r.error # NoError THEN Failed(g, r.error, r.cache, r.sent)
                 ELSE ApiLoop(g, gid.id[1], r.data[1], 0, r.cache, r.sent)

\* ------------------------------------------------------------- guesswork

S_posterHost == <<"h","t","t","p","s",":","/","/","t","h","u","m","b","s",".","g","f","y","c","a","t",".","c","o","m">>
PosterGood == S_posterHost \o <<"/","X","y","-","p","o","s","t","e","r",".","j","p","g">>

\* What the page fetch may answer: a successful or a failed response, whose
\* body has no video element, or one whose poster is absent, empty, a URL
\* without a path or a well-formed poster URL
PageResponses ==
    {[ok |-> o, video |-> FALSE, poster |-> NoneVal] : o \in BOOLEAN}
    \cup {[ok |-> o, video |-> TRUE, poster |-> p] :
            o \in BOOLEAN,
            p \in {NoneVal, Some(<<>>), Some(S_posterHost), Some(PosterGood)}}

HeadResponses ==
    {[ok |-> FALSE, content_length |-> NoneVal],
     [ok |-> TRUE, content_length |-> NoneVal],
     [ok |-> TRUE, content_length |-> Some(7)]}

PageRequest(u, resp) == [kind |-> "page", target |-> u, bearer |-> NoneVal, resp |-> resp]
HeadRequest(u, resp) == [kind |-> "head", target |-> u, bearer |-> NoneVal, resp |-> resp]

Mut_find_gfycat_id(u, page) ==
    LET sent == <<PageRequest(u, page)>>
    IN  IF ~page.video THEN [id |-> NoneVal, error |-> "ParseError", sent |-> sent]
        ELSE IF page.poster = NoneVal \/ page.poster = Some(<<>>)
        THEN [id |-> NoneVal, error |-> "ParseError", sent |-> sent]
        ELSE IF ~page.ok THEN [id |-> NoneVal, error |-> "FetchError", sent |-> sent]
        ELSE [id |-> get_gfycat_id(page.poster[1]).id,
              error |-> get_gfycat_id(page.poster[1]).error, sent |-> sent]

\* find_gfycat_id: the page fetch, the video element, its poster, the id
find_gfycat_id(u, page) ==
    LET sent == <<PageRequest(u, page)>>
    IN  IF ~page.ok THEN [id |-> NoneVal, error |-> "FetchError", sent |-> sent]
        ELSE IF ~page.video THEN [id |-> NoneVal, error |-> "ParseError", sent |-> sent]
        ELSE IF page.poster = NoneVal \/ page.poster = Some(<<>>)
        THEN [id |-> NoneVal, error |-> "ParseError", sent |-> sent]
        ELSE [id |-> get_gfycat_id(page.poster[1]).id,
              error |-> get_gfycat_id(page.poster[1]).error, sent |-> sent]

\* the Content the guesswork iterator yields for table entry i
GuessContent(i, gfycat_id, u, head) ==
    LET entry == CONTENT_ENTRIES[i]
    IN  [id |-> build_content_id(gfycat_id, entry.type),
         url |-> u,
         size |-> IF head.content_length = NoneVal THEN 0 ELSE head.content_length[1],
         type |-> entry.mimetype,
         quality |-> entry.quality,
         resources |-> <<[method |-> "GET",
                          url |-> FormatTemplate(entry.url_template, gfycat_id)]>>,
         meta |-> [id |-> gfycat_id, description |-> NoneVal, publisher |-> NoneVal,
                   published_at |-> NoneVal, thumbnail |-> NoneVal],
         extra |-> NoneVal]

Mut_NextGuessIndex(heads, idx) ==
    IF idx + 1 <= Len(CONTENT_ENTRIES) /\ heads[idx + 1].ok THEN idx + 1 ELSE 0

\* the first table entry after idx whose probe succeeds, 0 if none
NextGuessIndex(heads, idx) ==
    LET hits == {i \in (idx + 1)..Len(CONTENT_ENTRIES) : heads[i].ok}
    IN  IF hits = {} THEN 0 ELSE CHOOSE i \in hits : \A j \in hits : i <= j

\* the HEAD requests for entries from..to, in table order
RECURSIVE Probes(_, _, _, _)
Probes(gfycat_id, heads, from, to) ==
    IF from > to THEN <<>>
    ELSE <<HeadRequest(FormatTemplate(CONTENT_ENTRIES[from].url_template, gfycat_id),
                       heads[from])>>
         \o Probes(gfycat_id, heads, from + 1, to)

Mut_GuessLoop(g, gfycat_id, u, heads, idx, c, sent) ==
    LET i == NextGuessIndex(heads, idx)
    IN  IF i = 0
        THEN [pc |-> "done", idx |-> Len(CONTENT_ENTRIES), id |-> Some(gfycat_id),
              item |-> NoneVal, out |-> <<>>, error |-> NoError, cache |-> c,
              sent |-> sent \o Probes(gfycat_id, heads, idx + 1, Len(CONTENT_ENTRIES))]
        ELSE [pc |-> "suspended", idx |-> i, id |-> Some(gfycat_id),
              item |-> NoneVal, out |-> <<GuessContent(i, gfycat_id, u, heads[i])>>,
              error |-> NoError, cache |-> c,
              sent |-> sent \o Probes(gfycat_id, heads, idx + 1,
                                      IF i < Len(CONTENT_ENTRIES) THEN i + 1 ELSE i)]

\* the loop of guesswork.iter_content resumed after entry idx: it probes
\* entry after entry until one answers ok, and yields that one
GuessLoop(g, gfycat_id, u, heads, idx, c, sent) ==
    LET i == NextGuessIndex(heads, idx)
    IN  IF i = 0
        THEN [pc |-> "done", idx |-> Len(CONTENT_ENTRIES), id |-> Some(gfycat_id),
              item |-> NoneVal, out |-> <<>>, error |-> NoError, cache |-> c,
              sent |-> sent \o Probes(gfycat_id, heads, idx + 1, Len(CONTENT_ENTRIES))]
        ELSE [pc |-> "suspended", idx |-> i, id |-> Some(gfycat_id),
              item |-> NoneVal, out |-> <<GuessContent(i, gfycat_id, u, heads[i])>>,
              error |-> NoError, cache |-> c,
              sent |-> sent \o Probes(gfycat_id, heads, idx + 1, i)]

\* guesswork.iter_content from its first line to its first yield
GuessStart(g, u, page, heads, c) ==
    LET found == find_gfycat_id(u, page)
    IN  IF found.error # NoError THEN Failed(g, found.error, c, found.sent)
        ELSE GuessLoop(g, found.id[1], u, heads, 0, c, found.sent)

\* ---------------------------------------------------------------- facade

MaxPulls == 7

ExtractUrls == {S_https \o S_sep \o S_host,
                S_https \o S_sep \o S_host \o <<"/","A","b","-","c">>,
                S_https \o S_sep \o S_host \o <<"/","a","b","1">>,
                S_https \o S_sep \o S_giant \o S_dotHost \o <<"A","b",".","m","p","4">>}

EnvFlags == {NoneVal, Some(<<"0">>), Some(<<"1">>), Some(<<"t","r","u","e">>), Some(<<"T","r","u","e">>)}

Environs == [enabled : EnvFlags,
             token : {NoneVal, Some(""), Some("client_id")},
             secret : {NoneVal, Some("client_secret")}]

InitExtract ==
    /\ url \in ExtractUrls
    /\ environ \in Environs
    /\ cache \in {NoneVal, CacheSet(FreshToken(0), 0, DefaultExpire)}
    /\ now = 0
    /\ requests = <<>>
    /\ gen = NoGen
    /\ emitted = <<>>
    /\ error = NoError
    /\ calls = <<>>
    /\ handled = NoneVal
    /\ files = NoFiles
    /\ manifest = <<>>
    /\ merged = NoneVal
    /\ race = NoRace

\* the effect of one next() on the generator, given the step r it ran
Resume(strategy, r) ==
    /\ gen' = [pc |-> r.pc, strategy |-> strategy, idx |-> r.idx, id |-> r.id,
               item |-> r.item, pulls |-> gen.pulls + 1]
    /\ emitted' = emitted \o r.out
    /\ error' = r.error
    /\ cache' = r.cache
    /\ requests' = requests \o r.sent
    /\ UNCHANGED <<url, environ, now, calls, handled, files, manifest, merged, race>>

\* extract_content(url): calling a generator function runs none of its body
ExtractContent ==
    /\ gen.pc = "none"
    /\ gen' = [gen EXCEPT !.pc = "created"]
    /\ UNCHANGED <<url, environ, cache, now, requests, emitted, error, calls,
                   handled, files, manifest, merged, race>>

\* the first next(): get_content_iterator picks the iterator, which runs to
\* its first yield, its end or an exception
PullFirst ==
    /\ gen.pc = "created"
    /\ gen.pulls < MaxPulls
    /\ LET route == get_content_iterator(environ)
       IN  \/ /\ route.error # NoError
              /\ Resume("none", Failed(gen, route.error, cache, <<>>))
           \/ /\ route.strategy = "api"
              /\ \E auth \in AuthResponses(1), item \in ItemResponses :
                    Resume("api", ApiStart(gen, url, cache, now, auth, item))
           \/ /\ route.strategy = "guess"
              /\ \E page \in PageResponses, heads \in [1..Len(CONTENT_ENTRIES) -> HeadResponses] :
                    Resume("guess", GuessStart(gen, url, page, heads, cache))

\* a later next(): the iterator continues after its last yield
PullNext ==
    /\ gen.pc = "suspended"
    /\ gen.pulls < MaxPulls
    /\ \/ /\ gen.strategy = "api"
          /\ Resume("api", ApiLoop(gen, gen.id[1], gen.item[1], gen.idx, cache, <<>>))
       \/ /\ gen.strategy = "guess"
          /\ \E heads \in [(gen.idx + 1)..Len(CONTENT_ENTRIES) -> HeadResponses] :
                Resume("guess", GuessLoop(gen, gen.id[1], url, heads, gen.idx, cache, <<>>))

\* next() on a generator that ended, raised or was closed: StopIteration
PullFinished ==
    /\ gen.pc \in {"done", "failed", "closed"}
    /\ gen.pulls < MaxPulls
    /\ gen' = [gen EXCEPT !.pulls = gen.pulls + 1]
    /\ UNCHANGED <<url, environ, cache, now, requests, emitted, error, calls,
                   handled, files, manifest, merged, race>>

\* the consumer drops the generator: it is closed where it stands
Abandon ==
    /\ gen.pc \in {"created", "suspended"}
    /\ gen' = [gen EXCEPT !.pc = "closed"]
    /\ UNCHANGED <<url, environ, cache, now, requests, emitted, error, calls,
                   handled, files, manifest, merged, race>>

NextExtract == ExtractContent \/ PullFirst \/ PullNext \/ PullFinished \/ Abandon

SpecExtract == InitExtract /\ [][NextExtract]_vars

\* ------------------------------------------------- claims on extraction

IsHead(r) == r.kind = "head"
IsItem(r) == r.kind = "item"
IsAuth(r) == r.kind = "auth"
IsPage(r) == r.kind = "page"

\* the j-th smallest element of a set of numbers
Nth(S, j) == CHOOSE i \in S : Cardinality({x \in S : x < i}) = j - 1

\* C3: once the guesswork sequence is exhausted, exactly one HEAD probe went
\* out for each of the 5 table variants, in table order, whatever the earlier
\* probes answered; the Content entries received are exactly those of the
\* variants whose probe answered ok, in table order (strictly decreasing
\* quality), each with the table's mimetype and quality; and a sequence that
\* has started probing never fails.
C3_GuessProbesAll ==
    LET heads == SelectSeq(requests, IsHead)
        okIdx == {i \in 1..Len(heads) : heads[i].resp.ok}
    IN  /\ (gen.strategy = "guess" /\ heads # <<>>) => gen.pc # "failed"
        /\ (gen.strategy = "guess" /\ gen.pc = "done") =>
              /\ Len(heads) = 5
              /\ \A i \in 1..5 :
                    heads[i].target = FormatTemplate(CONTENT_ENTRIES[i].url_template, gen.id[1])
              /\ Len(emitted) = Cardinality(okIdx)
              /\ \A j \in 1..Len(emitted) :
                    LET i == Nth(okIdx, j)
                    IN  /\ emitted[j].type = CONTENT_ENTRIES[i].mimetype
                        /\ emitted[j].quality = CONTENT_ENTRIES[i].quality
                        /\ emitted[j].id = build_content_id(gen.id[1], CONTENT_ENTRIES[i].type)
                        /\ emitted[j].resources[1].url = heads[i].target
              /\ \A j, k \in 1..Len(emitted) : j < k => emitted[j].quality > emitted[k].quality

\* probes 1 and 4 answered ok, the other three failed and were still made
C3_Witness ==
    LET heads == SelectSeq(requests, IsHead)
    IN  /\ gen.strategy = "guess" /\ gen.pc = "done"
        /\ Len(heads) = 5
        /\ {i \in 1..5 : heads[i].resp.ok} = {1, 4}
        /\ Len(emitted) = 2

\* the table entry a received Content belongs to
EntryOf(content) == CHOOSE i \in 1..Len(CONTENT_ENTRIES) : CONTENT_ENTRIES[i].quality = content.quality

C4_State ==
    LET heads == SelectSeq(requests, IsHead)
    IN  /\ gen.pc \in {"none", "created"} => requests = <<>>
        /\ (gen.pc = "closed" /\ emitted = <<>>) => requests = <<>>
        /\ (gen.strategy = "guess" /\ gen.pc \in {"suspended", "closed"}) =>
              /\ emitted # <<>>
              /\ Len(heads) = EntryOf(emitted[Len(emitted)])
              /\ requests[Len(requests)].target = emitted[Len(emitted)].resources[1].url
              /\ \A i \in 1..Len(heads) :
                    heads[i].target = FormatTemplate(CONTENT_ENTRIES[i].url_template, gen.id[1])

C4_Step ==
    /\ requests' # requests =>
          /\ gen.pc \in {"created", "suspended"}
          /\ gen'.pulls = gen.pulls + 1
          /\ Len(requests') > Len(requests)
    /\ gen.pc = "closed" => (requests' = requests /\ emitted' = emitted /\ gen'.pc = "closed")

\* C4: extraction is pull-driven.  No request is made before the first pull;
\* requests are only ever made by a pull on a live generator; once the
\* consumer has abandoned the generator no request is made again, not even
\* by further pulls; and in the guesswork strategy a consumer that holds or
\* has abandoned the sequence after an element has seen probes for the
\* variants up to that element only.
C4_PullDriven == [](C4_State) /\ [][C4_Step]_vars

\* abandoned after the second variant was received: three never probed
C4_Witness ==
    /\ gen.strategy = "guess" /\ gen.pc = "closed"
    /\ gen.pulls > Len(emitted)
    /\ Len(emitted) = 1
    /\ EntryOf(emitted[1]) = 2
    /\ Len(SelectSeq(requests, IsHead)) = 2

\* C5: for every item payload the exhausted API sequence has delivered one
\* Content per table variant whose type is a key of content_urls and none for
\* any other key, in table order, each with the table's mimetype and quality
\* and the size and url of its map entry; the item was fetched exactly once
\* and that fetch is the last request made.
C5_ApiContentFromPayload ==
    LET items == SelectSeq(requests, IsItem)
    IN  /\ gen.strategy = "api" =>
              /\ Len(items) <= 1
              /\ items # <<>> => requests[Len(requests)] = items[1]
        /\ (gen.strategy = "api" /\ gen.pc = "done") =>
              /\ Len(items) = 1
              /\ items[1].target = API_URL_DATA \o gen.id[1]
              /\ LET payload == items[1].resp.gfyItem[1].content_urls
                     present == {i \in 1..5 : CONTENT_ENTRIES[i].type \in DOMAIN payload}
                 IN  /\ Len(emitted) = Cardinality(present)
                     /\ \A j \in 1..Len(emitted) :
                           LET e == CONTENT_ENTRIES[Nth(present, j)]
                           IN  /\ emitted[j].type = e.mimetype
                               /\ emitted[j].quality = e.quality
                               /\ emitted[j].size = payload[e.type].size
                               /\ emitted[j].resources = <<[method |-> "GET",
                                                            url |-> payload[e.type].url]>>
                               /\ emitted[j].id = build_content_id(gen.id[1], e.type)

\* the payload of the spec's example plus a key the table does not know
C5_Witness ==
    /\ gen.strategy = "api" /\ gen.pc = "done"
    /\ Len(emitted) = 2
    /\ \E i \in 1..Len(requests) :
          /\ requests[i].kind = "item"
          /\ DOMAIN requests[i].resp.gfyItem[1].content_urls =
                {CONTENT_ENTRIES[1].type, CONTENT_ENTRIES[2].type, S_mobile}

\* the flag values of the model whose lowercased text is "1" or "true"
FlagEnabled == environ.enabled \in {Some(<<"1">>), Some(<<"t","r","u","e">>), Some(<<"T","r","u","e">>)}

CredentialsPresent == environ.token # NoneVal /\ environ.secret # NoneVal

\* C6: the strategy is chosen once and never changed.  Flag enabled and both
\* credentials present: only auth and item requests are ever made.  Flag
\* enabled and a credential missing: the first pull fails with ConfigError
\* and no request is ever made.  Otherwise: only page and HEAD requests are
\* made.  This holds in every state, failed extractions included.
C6_RoutingNoFallback ==
    /\ (FlagEnabled /\ CredentialsPresent) =>
          /\ gen.strategy \in {"none", "api"}
          /\ gen.pc \in {"suspended", "done", "failed"} => gen.strategy = "api"
          /\ \A i \in 1..Len(requests) : requests[i].kind \in {"auth", "item"}
          /\ error # "ConfigError"
    /\ (FlagEnabled /\ ~CredentialsPresent) =>
          /\ gen.strategy = "none"
          /\ gen.pc \in {"none", "created", "closed", "failed"}
          /\ gen.pc = "failed" => error = "ConfigError"
          /\ requests = <<>>
          /\ emitted = <<>>
    /\ ~FlagEnabled =>
          /\ gen.strategy \in {"none", "guess"}
          /\ gen.pc \in {"suspended", "done", "failed"} => gen.strategy = "guess"
          /\ \A i \in 1..Len(requests) : requests[i].kind \in {"page", "head"}
          /\ error # "ConfigError"

\* the flag is "True", the item fetch failed, and nothing else was tried
C6_Witness ==
    /\ environ.enabled = Some(<<"T","r","u","e">>)
    /\ gen.pc = "failed" /\ error = "FetchError"
    /\ requests # <<>>
    /\ requests[Len(requests)].kind = "item"

\* the page the guesswork strategy fetched, if it fetched one
PageSeen == SelectSeq(requests, IsPage)

WellFormedPage(resp) == resp.ok /\ resp.video /\ resp.poster = Some(PosterGood)

\* C9 as stated: a caller URL without path segments ends every extraction
\* that ran a strategy with InvalidInput and no Content (pages that were
\* fetched being well-formed item pages).
C9_Original ==
    (/\ PathSegments(url) = <<>>
     /\ gen.strategy \in {"api", "guess"}
     /\ \A i \in 1..Len(PageSeen) : WellFormedPage(PageSeen[i].resp)) =>
        (error = "InvalidInput" /\ emitted = <<>>)

\* the poster URL the guesswork strategy handed to get_gfycat_id, if any
PosterResolved ==
    IF /\ PageSeen # <<>>
       /\ PageSeen[1].resp.ok /\ PageSeen[1].resp.video
       /\ PageSeen[1].resp.poster \notin {NoneVal, Some(<<>>)}
    THEN PageSeen[1].resp.poster
    ELSE NoneVal

\* C9, amended: the URL the identifier resolver is given is the caller's URL
\* in the API strategy and the page's poster URL in the guesswork strategy.
\* When that URL has no path segments the extraction fails with InvalidInput,
\* which reaches the consumer of extract_content as raised, with no Content
\* received (and in the API strategy with no request made, in the guesswork
\* strategy with no probe made).  InvalidInput arises in no other way: a
\* caller URL without path segments does not make the guesswork strategy
\* fail.
C9_InvalidInputFromResolver ==
    /\ (gen.strategy = "api" /\ PathSegments(url) = <<>>) =>
          /\ gen.pc = "failed" /\ error = "InvalidInput"
          /\ emitted = <<>> /\ requests = <<>>
    /\ (gen.strategy = "guess" /\ PosterResolved # NoneVal
        /\ PathSegments(PosterResolved[1]) = <<>>) =>
          /\ gen.pc = "failed" /\ error = "InvalidInput"
          /\ emitted = <<>> /\ SelectSeq(requests, IsHead) = <<>>
    /\ error = "InvalidInput" =>
          \/ gen.strategy = "api" /\ PathSegments(url) = <<>>
          \/ /\ gen.strategy = "guess" /\ PosterResolved # NoneVal
             /\ PathSegments(PosterResolved[1]) = <<>>

\* the guesswork strategy failed on the poster URL of a well-formed caller URL
C9_Witness ==
    /\ gen.strategy = "guess" /\ gen.pc = "failed" /\ error = "InvalidInput"
    /\ PathSegments(url) # <<>>
    /\ PosterResolved = Some(S_posterHost)

\* the OAuth answer is unusable: not successful, or without an access token,
\* or with an empty one
Unusable(resp) ==
    \/ ~resp.ok
    \/ resp.access_token = NoneVal
    \/ resp.access_token = Some(EmptyStr)

\* C10: whenever the OAuth answer is unusable, token acquisition fails with
\* AuthError, the token cache stays as it was (empty, or there would have been
\* no auth request) and no item request is sent.
C10_AuthFailure ==
    LET auths == SelectSeq(requests, IsAuth)
    IN  (auths # <<>> /\ Unusable(auths[1].resp)) =>
            /\ gen.pc = "failed"
            /\ error = "AuthError"
            /\ cache = NoneVal
            /\ SelectSeq(requests, IsItem) = <<>>

\* ------------------------------------- interleaved get_bearer_token calls
\* Independent invocations share the disk cache and nothing else.  Each runs
\* get_bearer_token in its three steps that touch shared state or the network:
\* the cache.get, the OAuth POST (with the checks on its answer), the
\* cache.set.  Steps of different invocations interleave freely.

NumProcs == 2

Procs == 1..NumProcs

\* get_bearer_token between the OAuth answer and the cache.set: the token and
\* the expiry it is about to store, or the error it raises
Mut_TokenFromAuth(resp) ==
    LET auth == get_auth_response(resp)
    IN  IF auth.error # NoError
        THEN [token |-> NoneVal, expire |-> NoneVal, error |-> auth.error]
        ELSE IF auth.data[1].access_token = NoneVal
        THEN [token |-> NoneVal, expire |-> NoneVal, error |-> "KeyError"]
        ELSE [token |-> auth.data[1].access_token,
              expire |-> Some(IF auth.data[1].expires_in = NoneVal THEN DefaultExpire
                              ELSE auth.data[1].expires_in[1]),
              error |-> NoError]

TokenFromAuth(resp) ==
    LET auth == get_auth_response(resp)
    IN  IF auth.error # NoError
        THEN [token |-> NoneVal, expire |-> NoneVal, error |-> auth.error]
        ELSE IF auth.data[1].access_token = NoneVal
        THEN [token |-> NoneVal, expire |-> NoneVal, error |-> "KeyError"]
        ELSE IF auth.data[1].access_token[1] = EmptyStr
        THEN [token |-> NoneVal, expire |-> NoneVal, error |-> "AuthError"]
        ELSE [token |-> auth.data[1].access_token,
              expire |-> Some(IF auth.data[1].expires_in = NoneVal THEN DefaultExpire
                              ELSE auth.data[1].expires_in[1]),
              error |-> NoError]

\* an invocation about to run its cache.get
NewProc == [pc |-> "get", token |-> NoneVal, expire |-> NoneVal, error |-> NoError,
            sent |-> 0]

InitRace ==
    /\ url = <<>>
    /\ environ = NoEnviron
    /\ cache = NoneVal
    /\ now = 0
    /\ requests = <<>>
    /\ gen = NoGen
    /\ emitted = <<>>
    /\ error = NoError
    /\ calls = <<>>
    /\ handled = NoneVal
    /\ files = NoFiles
    /\ manifest = <<>>
    /\ merged = NoneVal
    /\ race = [procs |-> [p \in Procs |-> NewProc], writes |-> <<>>]

\* bearer_token = cache.get(...); a hit is returned at once
BtCacheGet(p) ==
    /\ race.procs[p].pc = "get"
    /\ race' = [race EXCEPT !.procs[p] =
                   IF CacheGet(cache, now) # NoneVal
                   THEN [@ EXCEPT !.pc = "returned", !.token = CacheGet(cache, now)]
                   ELSE [@ EXCEPT !.pc = "post"]]
    /\ UNCHANGED <<url, environ, cache, now, requests, gen, emitted, error, calls,
                   handled, files, manifest, merged>>

\* auth_response = get_auth_response(...) and the checks on it
BtAuth(p) ==
    /\ race.procs[p].pc = "post"
    /\ \E resp \in AuthResponses(AuthCount(requests) + 1) :
          LET r == TokenFromAuth(resp)
          IN  /\ requests' = Append(requests, AuthRequest(resp))
              /\ race' = [race EXCEPT !.procs[p] =
                             [pc |-> IF r.error = NoError THEN "set" ELSE "raised",
                              token |-> r.token, expire |-> r.expire, error |-> r.error,
                              sent |-> @.sent + 1]]
    /\ UNCHANGED <<url, environ, cache, now, gen, emitted, error, calls,
                   handled, files, manifest, merged>>

\* cache.set(...), then return bearer_token
BtCacheSet(p) ==
    /\ race.procs[p].pc = "set"
    /\ cache' = CacheSet(race.procs[p].token[1], now, race.procs[p].expire[1])
    /\ race' = [race EXCEPT !.procs[p].pc = "returned",
                            !.writes = Append(@, [by |-> p, token |-> race.procs[p].token[1]])]
    /\ UNCHANGED <<url, environ, now, requests, gen, emitted, error, calls,
                   handled, files, manifest, merged>>

\* time passes between the steps
RaceTick ==
    /\ \E q \in Procs : race.procs[q].pc \notin {"returned", "raised"}
    /\ \E d \in TickSteps : now + d <= MaxNow /\ now' = now + d
    /\ UNCHANGED <<url, environ, cache, requests, gen, emitted, error, calls,
                   handled, files, manifest, merged, race>>

NextRace == (\E p \in Procs : BtCacheGet(p) \/ BtAuth(p) \/ BtCacheSet(p)) \/ RaceTick

SpecRace == InitRace /\ [][NextRace]_vars

Finished(p) == race.procs[p].pc \in {"returned", "raised"}

\* C11: with interleaved invocations on an initially empty cache, every
\* invocation that returns, returns a non-empty token that a successful auth
\* response carried; no invocation makes more than one auth request; and
\* once all have finished the cache holds the token written last (a token
\* was written if any invocation returned; if none was, the cache is still
\* empty).
C11_RaceLastWriterWins ==
    /\ \A p \in Procs :
          /\ race.procs[p].sent <= 1
          /\ race.procs[p].pc = "returned" =>
                /\ race.procs[p].token # NoneVal
                /\ race.procs[p].token[1] # EmptyStr
                /\ \E i \in 1..Len(requests) :
                      /\ requests[i].kind = "auth"
                      /\ requests[i].resp.ok
                      /\ requests[i].resp.access_token = race.procs[p].token
    /\ AuthCount(requests) <= NumProcs
    /\ (\A p \in Procs : Finished(p)) =>
          /\ (\E p \in Procs : race.procs[p].pc = "returned") => race.writes # <<>>
          /\ race.writes # <<>> =>
                /\ cache # NoneVal
                /\ cache[1].value = race.writes[Len(race.writes)].token
          /\ race.writes = <<>> => cache = NoneVal

\* both asked the server; the one that asked first wrote last, so the older
\* token is the one the cache keeps
C11_Witness ==
    /\ \A p \in Procs : race.procs[p].pc = "returned" /\ race.procs[p].sent = 1
    /\ Len(race.writes) = 2
    /\ race.writes[2].token = FreshToken(1)
    /\ cache[1].value = FreshToken(1)
    /\ race.procs[1].token # race.procs[2].token

\* ------------------------------------------------- find_gfycat_id failures

\* the error the claimed order of checks gives for a page response
FirstFailedCheck(resp) ==
    IF ~resp.ok THEN "FetchError"
    ELSE IF ~resp.video THEN "ParseError"
    ELSE IF resp.poster = NoneVal \/ resp.poster = Some(<<>>) THEN "ParseError"
    ELSE IF PathSegments(resp.poster[1]) = <<>> THEN "InvalidInput"
    ELSE NoError

\* C12: once the guesswork strategy has fetched the page, find_gfycat_id
\* fails at the first check, in this order, that does not hold: response not
\* successful gives FetchError, no video element gives ParseError, poster
\* absent or empty gives ParseError, poster URL without path segments gives
\* InvalidInput.  When it fails the extraction is aborted with that error,
\* no HEAD probe was sent and no Content was emitted; when every check holds
\* the extraction does not fail.
C12_FindIdCheckOrder ==
    (gen.strategy = "guess" /\ PageSeen # <<>>) =>
        /\ Len(PageSeen) = 1
        /\ IF FirstFailedCheck(PageSeen[1].resp) # NoError
           THEN /\ gen.pc = "failed"
                /\ error = FirstFailedCheck(PageSeen[1].resp)
                /\ SelectSeq(requests, IsHead) = <<>>
                /\ emitted = <<>>
           ELSE gen.pc # "failed" /\ error = NoError

\* a failed response whose body nevertheless has the video element and a
\* well-formed poster: the first check decides
C12_Witness ==
    /\ gen.strategy = "guess"
    /\ PageSeen # <<>>
    /\ ~PageSeen[1].resp.ok
    /\ PageSeen[1].resp.video
    /\ PageSeen[1].resp.poster = Some(PosterGood)
    /\ gen.pc = "failed"
    /\ error = "FetchError"
    /\ requests = PageSeen
    /\ emitted = <<>>

\* --------------------------------------- the id the API strategy works with

\* C13 as stated: for a URL that can_handle accepts, the id in the API
\* strategy's item request and in the ids of the Content it emits is the id
\* get_url_id extracts from that URL.
C13_ApiIdIsUrlId ==
    \A order \in VALID_PATTERNS :
        (gen.strategy = "api" /\ can_handle(url, order)) =>
            LET url_id == get_url_id(url, order)[1]
                items == SelectSeq(requests, IsItem)
            IN  /\ \A i \in 1..Len(items) : items[i].target = API_URL_DATA \o url_id
                /\ \A j \in 1..Len(emitted) :
                      \E k \in 1..Len(CONTENT_ENTRIES) :
                          emitted[j].id = build_content_id(url_id, CONTENT_ENTRIES[k].type)

====
